---- MODULE Spec2Model ----
(***************************************************************************)
(* Odette: the attendee reconciliation engine (upsertAttendee), the        *)
(* attendee routes that call it, the RSVP route and the invitation         *)
(* senders, as a state machine over the attendees table.                   *)
(*                                                                         *)
(* Strings are sequences of one-character strings, so that trim() and      *)
(* toLowerCase() are computed and not assumed.  A request handler of the   *)
(* single-threaded server runs without interruption up to its next await;  *)
(* only the two send handlers await (the mail transport), so every other   *)
(* handler is one action and each send handler is a start action and a     *)
(* resume action.                                                          *)
(***************************************************************************)
EXTENDS Integers, Sequences, FiniteSets, TLC

VARIABLES attendees, now, tokctr, proc, mail, resp, calls, last, prev, serial

vars == <<attendees, now, tokctr, proc, mail, resp, calls, last, prev, serial>>

----
\* Bounds of the exploration.

\* Number of requests (handler invocations and direct upsertAttendee calls).
MaxCalls == 2
\* Largest value of the millisecond clock.
MaxClock == 2
\* Largest number of rows the attendees table holds.
MaxRows == 6

----
\* Strings.

\* The characters trim() strips and \s matches.
Whitespace == {" ", "\t", "\n", "\r"}

LowerOf(c) ==
  CASE c = "A" -> "a"
    [] c = "B" -> "b"
    [] OTHER -> c

toLowerCase(s) == [i \in DOMAIN s |-> LowerOf(s[i])]

RECURSIVE trimStart(_)
trimStart(s) ==
  IF s # <<>> /\ Head(s) \in Whitespace THEN trimStart(Tail(s)) ELSE s

RECURSIVE trimEnd(_)
trimEnd(s) ==
  IF s # <<>> /\ s[Len(s)] \in Whitespace
  THEN trimEnd(SubSeq(s, 1, Len(s) - 1))
  ELSE s

trim(s) == trimEnd(trimStart(s))

\* JavaScript truthiness of a string: the empty string is the only falsy one.
Truthy(s) == s # <<>>

\* /^[^\s@]+@[^\s@]+\.[^\s@]+$/
EmailRegexTest(s) ==
  /\ \A i \in DOMAIN s : s[i] \notin Whitespace
  /\ Cardinality({i \in DOMAIN s : s[i] = "@"}) = 1
  /\ \E i \in DOMAIN s :
       /\ s[i] = "@"
       /\ i > 1
       /\ \E j \in DOMAIN s : j > i + 1 /\ j < Len(s) /\ s[j] = "."

\* str.split(sep) for a one-character separator: the pieces between separators.
RECURSIVE split(_, _)
split(s, sep) ==
  IF \A i \in DOMAIN s : s[i] # sep THEN <<s>>
  ELSE LET k == CHOOSE i \in DOMAIN s : s[i] = sep /\ \A j \in 1..(i - 1) : s[j] # sep
       IN <<SubSeq(s, 1, k - 1)>> \o split(SubSeq(s, k + 1, Len(s)), sep)

DigitChars == {"0", "1", "2", "3", "4", "5", "6", "7", "8", "9"}

DigitVal(c) ==
  CASE c = "0" -> 0 [] c = "1" -> 1 [] c = "2" -> 2 [] c = "3" -> 3 [] c = "4" -> 4
    [] c = "5" -> 5 [] c = "6" -> 6 [] c = "7" -> 7 [] c = "8" -> 8 [] c = "9" -> 9

\* An optional number: undefined, NaN or an integer.
NumUndefined == [num |-> "undefined"]
NumNaN == [num |-> "NaN"]
Num(n) == [num |-> "int", v |-> n]

RECURSIVE DigitsValue(_, _)
\* The value of the longest prefix of digits of s, continuing from acc.
DigitsValue(s, acc) ==
  IF s = <<>> \/ Head(s) \notin DigitChars THEN acc
  ELSE DigitsValue(Tail(s), 10 * acc + DigitVal(Head(s)))

\* parseInt(s, 10): leading whitespace is skipped, then an optional sign, then
\* the longest prefix of digits; NaN when there is no digit; undefined gives NaN.
parseInt(s) ==
  LET t == trimStart(s)
      neg == t # <<>> /\ Head(t) = "-"
      d == IF t # <<>> /\ Head(t) \in {"-", "+"} THEN Tail(t) ELSE t
  IN IF d = <<>> \/ Head(d) \notin DigitChars THEN NumNaN
     ELSE Num(IF neg THEN 0 - DigitsValue(d, 0) ELSE DigitsValue(d, 0))

IsNaN(n) == n.num = "NaN"

\* email.substring(0, email.lastIndexOf('@')).replace(/[."']/g, ' ').trim()
deriveNameFromAddress(email) ==
  LET ats == {i \in DOMAIN email : email[i] = "@"}
      local == IF ats = {} THEN <<>>
               ELSE SubSeq(email, 1, (CHOOSE i \in ats : \A j \in ats : j <= i) - 1)
  IN trim([i \in DOMAIN local |->
             IF local[i] \in {".", "\"", "'"} THEN " " ELSE local[i]])

\* The email strings of the requests.
EmailA == <<"a", "@", "x", ".", "y">>
EmailAVariant == <<" ", "A", "@", "x", ".", "y", " ">>
EmailB == <<"b", "@", "x", ".", "y">>
EmailBlank == <<" ">>

RawEmails == {EmailA, EmailAVariant, EmailB, EmailBlank}

\* An address no attendee of the seed tables has, and the primary emails the
\* update-emails form posts.
EmailC == <<"c", "@", "x", ".", "y">>
NewPrimaryEmails == RawEmails \cup {EmailC}

\* The names of the requests: empty, whitespace-only and a proper name.
NameEmpty == <<>>
NameBlank == <<" ">>
NameN == <<"n">>

Names == {NameEmpty, NameBlank, NameN}

----
\* Values.

Events == {1, 2}

\* SQL NULL, and the texts an additional_emails column can hold: the JSON text
\* of an array, a JSON text that is no array, a text that is no JSON, and ''.
SqlNull == [kind |-> "null"]
JsUndefined == [kind |-> "undefined"]
JsonObjectText == [kind |-> "object"]
NotJsonText == [kind |-> "invalid"]
EmptyText == [kind |-> "empty"]

JSONstringify(items) == [kind |-> "array", items |-> items]

\* JSON.parse(text): whether it throws, and whether the value is an array.
JSONparse(text) ==
  [ throws |-> text.kind \in {"invalid", "empty"},
    isArray |-> text.kind = "array",
    items |-> IF text.kind = "array" THEN text.items ELSE <<>> ]

\* rsvp IS NULL
NoRsvp == "NULL"
\* responded_at IS NULL
NoTime == 0

PartySizes == {NumUndefined, NumNaN, Num(-1), Num(0), Num(2)}

\* An optional array argument.
ArrUndefined == [arr |-> "undefined"]
Arr(items) == [arr |-> "array", items |-> items]

AdditionalArrays ==
  {ArrUndefined, Arr(<<>>), Arr(<<EmailAVariant, EmailB, EmailB>>)}

Min(S) == CHOOSE x \in S : \A y \in S : x <= y
Max(S) == CHOOSE x \in S : \A y \in S : x >= y

RECURSIVE SetToSortedSeq(_)
\* The elements of a set of numbers in rising order (rows come in rowid order).
SetToSortedSeq(S) ==
  IF S = {} THEN <<>> ELSE <<Min(S)>> \o SetToSortedSeq(S \ {Min(S)})

----
\* upsertAttendee

RECURSIVE NormalizeAndFilter(_, _)
\* arr.map(e => e.trim().toLowerCase()).filter(e => e && e !== primary)
NormalizeAndFilter(arr, primary) ==
  IF arr = <<>> THEN <<>>
  ELSE LET e == toLowerCase(trim(Head(arr)))
           rest == NormalizeAndFilter(Tail(arr), primary)
       IN IF Truthy(e) /\ e # primary THEN <<e>> \o rest ELSE rest

RECURSIVE UniqueInOrder(_)
\* [...new Set(arr)]: the first occurrences, in order
UniqueInOrder(arr) ==
  IF arr = <<>> THEN <<>>
  ELSE LET init == UniqueInOrder(SubSeq(arr, 1, Len(arr) - 1))
           x == arr[Len(arr)]
       IN IF \E i \in DOMAIN init : init[i] = x THEN init ELSE Append(init, x)

\* A lookup key that is trimmed but keeps the case of the letters.
normalizeEmailKeepingCase(primaryEmail) == trim(primaryEmail)

\* primaryEmail.trim().toLowerCase()
normalizeEmail(primaryEmail) == toLowerCase(trim(primaryEmail))

\* A default that is applied to undefined and NaN only.
finalPartySizeUnclamped(party_size) ==
  IF party_size.num # "int" THEN 1 ELSE party_size.v

finalPartySizeOf(party_size) ==
  IF party_size.num # "int" THEN 1
  ELSE IF party_size.v < 1 THEN 1 ELSE party_size.v

\* The JSON text of an array that keeps the primary email.
additionalEmailsJsonKeepingPrimary(additionalEmailsArray, trimmedPrimaryEmail) ==
  IF additionalEmailsArray.arr = "undefined" THEN JsUndefined
  ELSE LET uniqueAdditionalEmails ==
             UniqueInOrder(NormalizeAndFilter(additionalEmailsArray.items, <<>>))
       IN IF Len(uniqueAdditionalEmails) > 0
          THEN JSONstringify(uniqueAdditionalEmails)
          ELSE SqlNull

additionalEmailsJsonOf(additionalEmailsArray, trimmedPrimaryEmail) ==
  IF additionalEmailsArray.arr = "undefined" THEN JsUndefined
  ELSE LET uniqueAdditionalEmails ==
             UniqueInOrder(NormalizeAndFilter(additionalEmailsArray.items,
                                              trimmedPrimaryEmail))
       IN IF Len(uniqueAdditionalEmails) > 0
          THEN JSONstringify(uniqueAdditionalEmails)
          ELSE SqlNull

\* SELECT id ... WHERE event_id=? AND email=?
ExistingIds(db, event_id, email) ==
  {id \in DOMAIN db : db[id].event_id = event_id /\ db[id].email = email}

\* INTEGER PRIMARY KEY without AUTOINCREMENT: one more than the largest rowid.
NextRowId(db) == IF DOMAIN db = {} THEN 1 ELSE Max(DOMAIN db) + 1

\* An update that writes the provided name whatever it is.
UpdatedNameAlways(name, stored) == name

\* The name of an existing row after the update.
UpdatedName(name, stored) == IF Truthy(name) THEN name ELSE stored

\* An update of the party size that does not look at the RSVP response.
UpdatedPartySizeAfterRsvp(row, party_size) ==
  IF party_size.num # "undefined" /\ row.party_size # finalPartySizeOf(party_size)
  THEN finalPartySizeOf(party_size)
  ELSE row.party_size

\* An update that writes the default when no party size was provided.
UpdatedPartySizeDefaulting(row, party_size) ==
  IF row.rsvp = NoRsvp /\ row.party_size # finalPartySizeOf(party_size)
  THEN finalPartySizeOf(party_size)
  ELSE row.party_size

\* The party size of an existing row after the update.
UpdatedPartySize(row, party_size) ==
  IF row.rsvp = NoRsvp
     /\ party_size.num # "undefined"
     /\ row.party_size # finalPartySizeOf(party_size)
  THEN finalPartySizeOf(party_size)
  ELSE row.party_size

\* An update that clears the column when no array was provided.
UpdatedAdditionalEmailsOrNull(row, additionalEmailsJson) ==
  IF additionalEmailsJson = JsUndefined THEN SqlNull ELSE additionalEmailsJson

\* The additional_emails of an existing row after the update.
UpdatedAdditionalEmails(row, additionalEmailsJson) ==
  IF additionalEmailsJson # JsUndefined /\ additionalEmailsJson # row.additional_emails
  THEN additionalEmailsJson
  ELSE row.additional_emails

\* An update that writes nothing, last_modified included, when no other column
\* changes.
UpdatedRowIfChanged(row, t, name, party_size, additionalEmailsJson) ==
  IF /\ UpdatedName(name, row.name) = row.name
     /\ UpdatedPartySize(row, party_size) = row.party_size
     /\ UpdatedAdditionalEmails(row, additionalEmailsJson) = row.additional_emails
  THEN row
  ELSE [row EXCEPT
          !.last_modified = t,
          !.name = UpdatedName(name, row.name),
          !.party_size = UpdatedPartySize(row, party_size),
          !.additional_emails = UpdatedAdditionalEmails(row, additionalEmailsJson)]

\* An update that also writes another token.
UpdatedRowWithToken(row, t, name, party_size, additionalEmailsJson) ==
  [row EXCEPT
     !.last_modified = t,
     !.token = row.token + 1,
     !.name = UpdatedName(name, row.name),
     !.party_size = UpdatedPartySize(row, party_size),
     !.additional_emails = UpdatedAdditionalEmails(row, additionalEmailsJson)]

\* A write that replaces the row (INSERT OR REPLACE): the columns the call does
\* not provide take their defaults.
UpdatedRowReplaced(row, t, name, party_size, additionalEmailsJson) ==
  [row EXCEPT
     !.last_modified = t,
     !.name = UpdatedName(name, row.name),
     !.party_size = UpdatedPartySize(row, party_size),
     !.additional_emails = UpdatedAdditionalEmails(row, additionalEmailsJson),
     !.is_sent = FALSE,
     !.rsvp = NoRsvp,
     !.responded_at = NoTime]

\* UPDATE attendees SET last_modified=? [, name=?] [, party_size=?]
\* [, additional_emails=?] WHERE id=?
UpdatedRow(row, t, name, party_size, additionalEmailsJson) ==
  [row EXCEPT
     !.last_modified = t,
     !.name = UpdatedName(name, row.name),
     !.party_size = UpdatedPartySize(row, party_size),
     !.additional_emails = UpdatedAdditionalEmails(row, additionalEmailsJson)]

\* The row INSERT INTO attendees (...) VALUES (...) creates; is_sent, rsvp and
\* responded_at take the column defaults.
InsertedRow(event_id, name, email, party_size, token, t, additional_emails) ==
  [ event_id |-> event_id,
    name |-> name,
    email |-> email,
    party_size |-> party_size,
    token |-> token,
    is_sent |-> FALSE,
    rsvp |-> NoRsvp,
    responded_at |-> NoTime,
    last_modified |-> t,
    additional_emails |-> additional_emails ]

\* A table without the UNIQUE constraint on token.
TokenNeverTaken(db, token) == FALSE

\* token TEXT NOT NULL UNIQUE: a row of the table already holds the token.
TokenTaken(db, token) == \E id \in DOMAIN db : db[id].token = token

\* upsertAttendee(event_id, name, primaryEmail, party_size, additionalEmailsArray)
\* on table db at time t, where generateToken() returns token: the table
\* afterwards, whether the call threw, the row it touched, whether it inserted.
upsertAttendee(db, t, token, event_id, name, primaryEmail, party_size, additionalEmailsArray) ==
  LET trimmedPrimaryEmail == normalizeEmail(primaryEmail)
      existing == ExistingIds(db, event_id, trimmedPrimaryEmail)
      finalPartySize == finalPartySizeOf(party_size)
      additionalEmailsJson ==
        additionalEmailsJsonOf(additionalEmailsArray, trimmedPrimaryEmail)
  IN IF existing # {}
     THEN LET attendeeId == Min(existing)
              row == db[attendeeId]
          IN [ threw |-> FALSE, id |-> attendeeId, inserted |-> FALSE,
               db |-> [db EXCEPT ![attendeeId] =
                         UpdatedRow(row, t, name, party_size, additionalEmailsJson)] ]
     ELSE IF TokenTaken(db, token)
          THEN \* token TEXT NOT NULL UNIQUE: the INSERT throws
               [threw |-> TRUE, id |-> 0, inserted |-> FALSE, db |-> db]
          ELSE LET id == NextRowId(db)
                   newRow == InsertedRow(event_id, name, trimmedPrimaryEmail,
                                         finalPartySize, token, t,
                                         IF additionalEmailsJson = JsUndefined
                                         THEN SqlNull
                                         ELSE additionalEmailsJson)
               IN [ threw |-> FALSE, id |-> id, inserted |-> TRUE,
                    db |-> [i \in DOMAIN db \cup {id} |->
                              IF i = id THEN newRow ELSE db[i]] ]

\* A candidate of an import: the arguments of one upsertAttendee call.
Candidate(name, email, party_size, additionalEmailsArray) ==
  [ name |-> name, email |-> email, party_size |-> party_size,
    additionalEmailsArray |-> additionalEmailsArray ]

RECURSIVE upsertEach(_, _, _, _, _)
\* cands.forEach(c => upsertAttendee(event_id, ...c)): the table and the number
\* of tokens generated so far; each generated token is a new one.
upsertEach(db, ctr, t, event_id, cands) ==
  IF cands = <<>> THEN [db |-> db, ctr |-> ctr]
  ELSE LET c == Head(cands)
           r == upsertAttendee(db, t, ctr + 1, event_id, c.name, c.email,
                               c.party_size, c.additionalEmailsArray)
       IN upsertEach(r.db, IF r.inserted THEN ctr + 1 ELSE ctr, t, event_id, Tail(cands))

----
\* Rows changed by the other statements.

\* UPDATE attendees SET is_sent=1, last_modified=? WHERE id=?
MarkSent(db, id, t) ==
  IF id \in DOMAIN db
  THEN [db EXCEPT ![id] = [@ EXCEPT !.is_sent = TRUE, !.last_modified = t]]
  ELSE db

\* UPDATE attendees SET rsvp=?, party_size=?, responded_at=?, last_modified=? WHERE token=?
RecordRsvp(db, token, rsvp, party_size, t) ==
  [id \in DOMAIN db |->
     IF db[id].token = token
     THEN [db[id] EXCEPT !.rsvp = rsvp, !.party_size = party_size,
                         !.responded_at = t, !.last_modified = t]
     ELSE db[id]]

RECURSIVE StringsLowerTrimmed(_)
\* parsedAdditional.map(e => String(e).trim().toLowerCase())
StringsLowerTrimmed(items) ==
  IF items = <<>> THEN <<>>
  ELSE <<toLowerCase(trim(Head(items)))>> \o StringsLowerTrimmed(Tail(items))

RECURSIVE WithoutEmptyAnd(_, _)
\* .filter(e => e && e !== primaryEmail)
WithoutEmptyAnd(items, primaryEmail) ==
  IF items = <<>> THEN <<>>
  ELSE IF Truthy(Head(items)) /\ Head(items) # primaryEmail
       THEN <<Head(items)>> \o WithoutEmptyAnd(Tail(items), primaryEmail)
       ELSE WithoutEmptyAnd(Tail(items), primaryEmail)

\* A CC list that keeps the primary email when the stored list holds it.
ccEmailsWithPrimary(additional_emails, primaryEmail) ==
  IF additional_emails.kind \in {"null", "empty"} THEN <<>>
  ELSE LET parsedAdditional == JSONparse(additional_emails)
       IN IF parsedAdditional.throws \/ ~parsedAdditional.isArray THEN <<>>
          ELSE WithoutEmptyAnd(StringsLowerTrimmed(parsedAdditional.items), <<>>)

\* The CC list the send handlers derive from the stored additional_emails.
ccEmailsOf(additional_emails, primaryEmail) ==
  IF additional_emails.kind \in {"null", "empty"} THEN <<>>
  ELSE LET parsedAdditional == JSONparse(additional_emails)
       IN IF parsedAdditional.throws \/ ~parsedAdditional.isArray THEN <<>>
          ELSE WithoutEmptyAnd(StringsLowerTrimmed(parsedAdditional.items), primaryEmail)

----
\* State.
\*   attendees  the attendees table: rowid -> row
\*   now        Date.now()
\*   tokctr     the number of distinct tokens generateToken() has returned
\*   proc       the send handlers: idle, or suspended at the mail transport
\*   mail       the latest call of the mail transport (n counts the calls)
\*   resp       the latest response or return
\*   calls      the number of requests made
\*   last       the latest handler step: the request and its arguments, or the
\*              resumption of a suspended handler
\*   prev       the attendees table and the number of transport calls before
\*              the latest handler step
\*   serial     whether the clients wait for the response to a request before
\*              they make the next one

Procs == {1, 2}

Idle == [pc |-> "idle"]

EmptyTable == <<>>

\* Tables an earlier run of the server left in the database file.
\* Three attendees of event 1 awaiting their invitation; the second was entered
\* without an email address, the first has a CC address.
PendingTable ==
  LET d1 == upsertAttendee(EmptyTable, 1, 1, 1, NameN, EmailA, Num(2), Arr(<<EmailB>>)).db
      d2 == upsertAttendee(d1, 1, 2, 1, NameN, EmailBlank, NumUndefined, Arr(<<>>)).db
  IN upsertAttendee(d2, 1, 3, 1, NameN, EmailB, NumUndefined, ArrUndefined).db

\* An attendee of event 1 with a CC address who was invited and answered yes
\* for a party of two, and an attendee of event 2 with the same address.
RespondedTable ==
  LET d1 == upsertAttendee(EmptyTable, 1, 1, 1, NameN, EmailA, NumUndefined, Arr(<<EmailB>>)).db
      d2 == upsertAttendee(d1, 1, 2, 2, NameN, EmailA, NumUndefined, ArrUndefined).db
  IN RecordRsvp(MarkSent(d2, 1, 1), 1, "yes", 2, 1)

SeedTables == {EmptyTable, PendingTable, RespondedTable}

\* Tables with rows that were not written by upsertAttendee (the tests insert
\* rows with SQL): the primary email is stored as typed and additional_emails
\* holds any text, the schema of CREATE TABLE checking neither.
StoredTexts ==
  { NotJsonText, JsonObjectText, EmptyText,
    JSONstringify(<<EmailA, <<" ", "B", "@", "x", ".", "y">>, <<>>>>) }

LegacyTable(text) ==
  << InsertedRow(1, NameN, EmailAVariant, 1, 1, 1, text),
     InsertedRow(1, NameN, EmailB, 1, 0, 1, NotJsonText) >>

LegacyTables == {LegacyTable(text) : text \in StoredTexts}

InitWith(tables, oneAtATime) ==
  /\ attendees \in tables
  /\ now = 1
  /\ tokctr = Cardinality(DOMAIN attendees)
  /\ proc = [p \in Procs |-> Idle]
  /\ mail = [n |-> 0]
  /\ resp = [op |-> "none"]
  /\ calls = 0
  /\ last = [op |-> "none"]
  /\ serial = oneAtATime
  /\ prev = [db |-> attendees, mailn |-> 0]

Init == InitWith(SeedTables, FALSE)

\* A request arrives: the clients may have to wait for the handlers in flight.
Arrives ==
  /\ calls < MaxCalls
  /\ serial => \A p \in Procs : proc[p] = Idle

\* Date.now() never decreases; it may or may not advance between two calls.
Tick ==
  /\ now < MaxClock
  /\ now' = now + 1
  /\ UNCHANGED <<attendees, tokctr, proc, mail, resp, calls, last, prev, serial>>

\* The values generateToken() can return: one no call returned before, or the
\* token of a stored row (16 random bytes can repeat).
GeneratedTokens == {tokctr + 1} \cup {attendees[id].token : id \in DOMAIN attendees}

\* generateToken() is called only when no row exists for the key.
TokensDrawn(a) ==
  IF ExistingIds(attendees, a.event_id, normalizeEmail(a.primaryEmail)) = {}
  THEN GeneratedTokens
  ELSE {tokctr + 1}

\* The arguments of the direct calls: every name with every email in both
\* events, every party size with every email, every array with every email.
UpsertArgs ==
  [event_id : Events, name : Names, primaryEmail : RawEmails,
   party_size : {Num(2)}, additionalEmailsArray : {ArrUndefined}]
  \cup
  [event_id : {1}, name : {NameN}, primaryEmail : RawEmails,
   party_size : PartySizes, additionalEmailsArray : {ArrUndefined}]
  \cup
  [event_id : {1}, name : {NameEmpty, NameN}, primaryEmail : RawEmails,
   party_size : {NumUndefined}, additionalEmailsArray : AdditionalArrays]

\* A call upsertAttendee(event_id, name, primaryEmail, party_size,
\* additionalEmailsArray), as POST /attendee and the tests make it.
UpsertCall(a) ==
  /\ Arrives
  /\ \E token \in TokensDrawn(a) :
       LET r == upsertAttendee(attendees, now, token, a.event_id, a.name,
                               a.primaryEmail, a.party_size, a.additionalEmailsArray)
       IN /\ Cardinality(DOMAIN r.db) <= MaxRows
          /\ attendees' = r.db
          /\ tokctr' = IF r.inserted /\ token = tokctr + 1 THEN tokctr + 1 ELSE tokctr
          /\ resp' = [ op |-> "upsertAttendee",
                       kind |-> IF r.threw THEN "threw" ELSE "ok",
                       id |-> r.id, inserted |-> r.inserted, drawn |-> token ]
  /\ calls' = calls + 1
  /\ prev' = [db |-> attendees, mailn |-> mail.n]
  /\ serial' = serial
  /\ last' = [ op |-> "upsertAttendee", args |-> a, at |-> now,
               repeated |-> /\ last.op = "upsertAttendee"
                            /\ last.args = a
                            /\ resp.kind = "ok" ]
  /\ UNCHANGED <<now, proc, mail>>

\* One line of POST /attendees/batch: the candidate, or none.
BatchLineCandidates(line) ==
  LET fields == split(line, ",")
      name == IF Len(fields) >= 1 THEN trim(fields[1]) ELSE <<>>
      email == IF Len(fields) >= 2 THEN trim(fields[2]) ELSE <<>>
      party == IF Len(fields) >= 3 THEN parseInt(trim(fields[3])) ELSE NumNaN
  IN IF Truthy(name) /\ Truthy(email)
     THEN << Candidate(name, email,
                       IF IsNaN(party) \/ party.v < 1 THEN Num(1) ELSE party,
                       Arr(<<>>)) >>
     ELSE <<>>

RECURSIVE BatchCandidates(_)
BatchCandidates(lines) ==
  IF lines = <<>> THEN <<>>
  ELSE BatchLineCandidates(Head(lines)) \o BatchCandidates(Tail(lines))

Comma == <<",">>
Newline == <<"\n">>

\* The texts posted to the batch route.
CsvTexts ==
  { NameN \o Comma \o EmailAVariant \o Comma \o <<"2">>
      \o Newline \o NameBlank \o Comma \o EmailB
      \o Newline \o NameN \o Comma \o EmailB \o Comma \o <<"0">>,
    NameN \o Comma \o EmailA \o Comma \o <<"x">> \o Newline }

\* POST /attendees/batch
BatchAdd(e, csv) ==
  /\ Arrives
  /\ LET r == upsertEach(attendees, tokctr, now, e, BatchCandidates(split(csv, "\n")))
     IN /\ Cardinality(DOMAIN r.db) <= MaxRows
        /\ attendees' = r.db
        /\ tokctr' = r.ctr
        /\ resp' = [op |-> "batch", kind |-> "redirect"]
        /\ calls' = calls + 1
        /\ prev' = [db |-> attendees, mailn |-> mail.n]
        /\ serial' = serial
        /\ last' = [op |-> "batch", event_id |-> e, csv |-> csv]
        /\ UNCHANGED <<now, proc, mail>>

\* What addressparser makes of the posted text: nothing (the text is empty), a
\* list of {name, address} entries, or an exception.
Parsed(name, address) == [name |-> name, address |-> address]

EmailFieldData ==
  { [text |-> "empty"],
    [text |-> "malformed"],
    [text |-> "addresses", parsed |-> <<Parsed(NameN, EmailAVariant),
                                        Parsed(NameEmpty, EmailB),
                                        Parsed(NameN, <<>>)>>] }

RECURSIVE ParsedCandidates(_)
ParsedCandidates(parsedAddresses) ==
  IF parsedAddresses = <<>> THEN <<>>
  ELSE LET parsed == Head(parsedAddresses)
           email == parsed.address
           name == IF Truthy(parsed.name) THEN parsed.name
                   ELSE deriveNameFromAddress(email)
       IN (IF Truthy(parsed.address)
           THEN <<Candidate(name, email, Num(1), Arr(<<>>))>>
           ELSE <<>>) \o ParsedCandidates(Tail(parsedAddresses))

\* POST /event/:eventId/attendees/parse-emails
ParseEmails(e, data) ==
  /\ Arrives
  /\ LET r == IF data.text = "addresses"
              THEN upsertEach(attendees, tokctr, now, e, ParsedCandidates(data.parsed))
              ELSE [db |-> attendees, ctr |-> tokctr]
     IN /\ Cardinality(DOMAIN r.db) <= MaxRows
        /\ attendees' = r.db
        /\ tokctr' = r.ctr
        /\ resp' = [op |-> "parse-emails", kind |-> "redirect"]
        /\ calls' = calls + 1
        /\ prev' = [db |-> attendees, mailn |-> mail.n]
        /\ serial' = serial
        /\ last' = [op |-> "parse-emails", event_id |-> e, data |-> data]
        /\ UNCHANGED <<now, proc, mail>>

RECURSIVE CopyCandidatesWithoutAdditional(_, _)
\* Candidates that leave the additional emails of the source rows behind.
CopyCandidatesWithoutAdditional(db, ids) ==
  IF ids = <<>> THEN <<>>
  ELSE LET r == db[Head(ids)]
       IN <<Candidate(r.name, r.email, Num(r.party_size), Arr(<<>>))>>
          \o CopyCandidatesWithoutAdditional(db, Tail(ids))

RECURSIVE CopyCandidates(_, _)
\* One candidate per row of the source event, in rowid order.
CopyCandidates(db, ids) ==
  IF ids = <<>> THEN <<>>
  ELSE LET r == db[Head(ids)]
           parsedEmails == JSONparse(r.additional_emails)
           additionalEmailsList ==
             IF r.additional_emails.kind \in {"null", "empty"} THEN <<>>
             ELSE IF parsedEmails.throws \/ ~parsedEmails.isArray THEN <<>>
             ELSE parsedEmails.items
       IN <<Candidate(r.name, r.email, Num(r.party_size), Arr(additionalEmailsList))>>
          \o CopyCandidates(db, Tail(ids))

\* POST /attendees/copy
CopyAttendees(fromEventId, toEventId) ==
  /\ Arrives
  /\ LET rows == SetToSortedSeq({id \in DOMAIN attendees :
                                   attendees[id].event_id = fromEventId})
         r == upsertEach(attendees, tokctr, now, toEventId, CopyCandidates(attendees, rows))
     IN /\ Cardinality(DOMAIN r.db) <= MaxRows
        /\ attendees' = r.db
        /\ tokctr' = r.ctr
        /\ resp' = [op |-> "copy", kind |-> "redirect"]
        /\ calls' = calls + 1
        /\ prev' = [db |-> attendees, mailn |-> mail.n]
        /\ serial' = serial
        /\ last' = [op |-> "copy", from |-> fromEventId, to |-> toEventId]
        /\ UNCHANGED <<now, proc, mail>>

\* The party sizes typed into the forms.
PartySizeTexts == {<<"0">>, <<"3">>, <<"x">>}

\* The attendee ids of the requests: the rows there can be.
RequestIds == 1..MaxRows

\* POST /attendee/:attendeeId/update-party-size
UpdatePartySize(attendeeId, party_size) ==
  /\ Arrives
  /\ LET newPartySize == parseInt(party_size)
         found == attendeeId \in DOMAIN attendees
         attendeeInfo == attendees[attendeeId]
         invalid == IsNaN(newPartySize) \/ newPartySize.v < 1
         kind == IF ~found THEN "404"
                 ELSE IF invalid THEN "redirect-invalid"
                 ELSE IF attendeeInfo.rsvp # NoRsvp THEN "redirect-responded"
                 ELSE "redirect"
         r == IF kind = "redirect"
              THEN upsertAttendee(attendees, now, tokctr + 1, attendeeInfo.event_id,
                                  attendeeInfo.name, attendeeInfo.email, newPartySize,
                                  ArrUndefined)
              ELSE [db |-> attendees, inserted |-> FALSE]
     IN /\ Cardinality(DOMAIN r.db) <= MaxRows
        /\ attendees' = r.db
        /\ tokctr' = IF r.inserted THEN tokctr + 1 ELSE tokctr
        /\ resp' = [op |-> "update-party-size", kind |-> kind]
        /\ calls' = calls + 1
        /\ prev' = [db |-> attendees, mailn |-> mail.n]
        /\ serial' = serial
        /\ last' = [ op |-> "update-party-size", attendeeId |-> attendeeId,
                     party_size |-> party_size ]
        /\ UNCHANGED <<now, proc, mail>>

RECURSIVE ValidAdditionalEmails(_, _)
\* .map(e => e.trim().toLowerCase()).filter(e => e && regex.test(e) && e !== newPrimaryEmail)
ValidAdditionalEmails(pieces, newPrimaryEmail) ==
  IF pieces = <<>> THEN <<>>
  ELSE LET e == toLowerCase(trim(Head(pieces)))
           rest == ValidAdditionalEmails(Tail(pieces), newPrimaryEmail)
       IN IF Truthy(e) /\ EmailRegexTest(e) /\ e # newPrimaryEmail
          THEN <<e>> \o rest
          ELSE rest

\* The additional-emails texts typed into the edit form, one address a line.
AdditionalEmailsTexts ==
  { <<>>, EmailAVariant \o Newline \o Newline \o EmailB \o Newline \o EmailB }

\* POST /attendee/:attendeeId/update-emails
UpdateEmails(attendeeId, newNameRaw, newPrimaryEmailRaw, additionalEmailsRaw) ==
  /\ Arrives
  /\ LET newName == trim(newNameRaw)
         newPrimaryEmail == toLowerCase(trim(newPrimaryEmailRaw))
         found == attendeeId \in DOMAIN attendees
         attendee == attendees[attendeeId]
         newAdditionalEmailsList ==
           IF Truthy(additionalEmailsRaw)
           THEN ValidAdditionalEmails(split(additionalEmailsRaw, "\n"), newPrimaryEmail)
           ELSE <<>>
         newAdditionalEmailsJson ==
           IF Len(newAdditionalEmailsList) > 0
           THEN JSONstringify(UniqueInOrder(newAdditionalEmailsList))
           ELSE SqlNull
         conflictingAttendee ==
           newPrimaryEmail # attendee.email
           /\ \E id \in DOMAIN attendees :
                /\ attendees[id].event_id = attendee.event_id
                /\ attendees[id].email = newPrimaryEmail
                /\ id # attendeeId
         kind == IF ~found THEN "404"
                 ELSE IF ~Truthy(newName) THEN "redirect-error-name"
                 ELSE IF ~Truthy(newPrimaryEmail) \/ ~EmailRegexTest(newPrimaryEmail)
                      THEN "redirect-error-email"
                 ELSE IF conflictingAttendee THEN "redirect-error-conflict"
                 ELSE "redirect"
     IN /\ attendees' =
             IF kind = "redirect"
             THEN [attendees EXCEPT ![attendeeId] =
                     [@ EXCEPT !.name = newName,
                               !.email = newPrimaryEmail,
                               !.additional_emails = newAdditionalEmailsJson,
                               !.last_modified = now]]
             ELSE attendees
        /\ resp' = [op |-> "update-emails", kind |-> kind]
        /\ calls' = calls + 1
        /\ prev' = [db |-> attendees, mailn |-> mail.n]
        /\ serial' = serial
        /\ last' = [ op |-> "update-emails", attendeeId |-> attendeeId,
                     name |-> newNameRaw, primaryEmail |-> newPrimaryEmailRaw,
                     additionalEmails |-> additionalEmailsRaw ]
        /\ UNCHANGED <<now, tokctr, proc, mail>>

\* POST /attendee/:attendeeId/delete
DeleteAttendee(attendeeId) ==
  /\ Arrives
  /\ attendees' = [id \in DOMAIN attendees \ {attendeeId} |-> attendees[id]]
  /\ resp' = [ op |-> "delete",
               kind |-> IF attendeeId \in DOMAIN attendees
                        THEN "redirect" ELSE "redirect-error" ]
  /\ calls' = calls + 1
  /\ prev' = [db |-> attendees, mailn |-> mail.n]
  /\ serial' = serial
  /\ last' = [op |-> "delete", attendeeId |-> attendeeId]
  /\ UNCHANGED <<now, tokctr, proc, mail>>

\* The tokens of the RSVP links requested: 32 hexadecimal characters (the
\* number tells which), or a text of another shape.
HexChars == {"0", "1", "2", "3", "4", "5", "6", "7", "8", "9", "a", "b", "c", "d", "e", "f"}

\* The text of the stored token n: tokens are numbered in the order they were
\* generated, the n-th being thirty-one "a" and the digit of n; token 0 is
\* the text 'abc123' of a row that was not written by upsertAttendee.
HexToken(n) ==
  IF n = 0 THEN <<"a", "b", "c", "1", "2", "3">>
  ELSE [i \in 1..32 |-> IF i < 32 THEN "a"
                        ELSE <<"1", "2", "3", "4", "5", "6", "7", "8", "9">>[n]]

\* Texts that are no tokens: too short, upper case, and a token with a line
\* feed after it.
MalformedTokens ==
  { HexToken(0),
    [i \in 1..32 |-> IF i < 32 THEN "A" ELSE "1"],
    HexToken(1) \o <<"\n">> }

RequestTokens == {HexToken(n) : n \in 1..MaxRows} \cup MalformedTokens

\* A test of the characters alone.
isValidTokenOfAnyLength(token) == \A i \in DOMAIN token : token[i] \in HexChars

\* /^[0-9a-f]{32}$/.test(token)
isValidToken(token) ==
  /\ Len(token) = 32
  /\ \A i \in DOMAIN token : token[i] \in HexChars

\* The rows SELECT ... WHERE a.token=? finds.
RowsOfToken(db, token) == {id \in DOMAIN db : HexToken(db[id].token) = token}

\* The answers and party sizes the RSVP form posts.
RsvpForms ==
  { [rsvp |-> "yes", party_size |-> <<"3">>],
    [rsvp |-> "yes", party_size |-> <<"0">>],
    [rsvp |-> "no", party_size |-> <<"3">>],
    [rsvp |-> "maybe", party_size |-> <<"x">>] }

\* POST /rsvp/:token
SubmitRsvp(token, form) ==
  /\ Arrives
  /\ LET found == RowsOfToken(attendees, token) # {}
         attendeeData == attendees[CHOOSE id \in RowsOfToken(attendees, token) : TRUE]
         parsedPartySize == parseInt(form.party_size)
         badSize == form.rsvp = "yes" /\ (IsNaN(parsedPartySize) \/ parsedPartySize.v < 1)
         finalPartySize == IF form.rsvp = "yes" THEN parsedPartySize.v
                           ELSE attendeeData.party_size
         kind == IF ~isValidToken(token) THEN "400-token"
                 ELSE IF ~found THEN "404"
                 ELSE IF badSize THEN "400-party-size"
                 ELSE "thanks"
     IN /\ attendees' =
             IF kind = "thanks"
             THEN RecordRsvp(attendees, attendeeData.token, form.rsvp, finalPartySize, now)
             ELSE attendees
        /\ resp' = [op |-> "rsvp", kind |-> kind]
        /\ calls' = calls + 1
        /\ prev' = [db |-> attendees, mailn |-> mail.n]
        /\ serial' = serial
        /\ last' = [op |-> "rsvp", token |-> token, form |-> form]
        /\ UNCHANGED <<now, tokctr, proc, mail>>

\* GET /rsvp/:tok and GET /ics/:token: the form or the calendar file of the
\* attendee of the token; neither writes.
ViewByToken(route, token) ==
  /\ Arrives
  /\ resp' = [ op |-> route,
               kind |-> IF ~isValidToken(token) THEN "400-token"
                        ELSE IF RowsOfToken(attendees, token) = {} THEN "404"
                        ELSE "render" ]
  /\ calls' = calls + 1
  /\ prev' = [db |-> attendees, mailn |-> mail.n]
  /\ serial' = serial
  /\ last' = [op |-> route, token |-> token]
  /\ UNCHANGED <<attendees, now, tokctr, proc, mail>>

----
\* The invitation senders.

\* The columns the send handlers select.
Invitee(db, id) ==
  [ id |-> id, name |-> db[id].name, email |-> db[id].email, token |-> db[id].token,
    event_id |-> db[id].event_id, additional_emails |-> db[id].additional_emails ]

\* sendInvitation(a.name, primaryEmail, ccEmails, a.token, event, appBaseUrl) is
\* called for the row a the handler read; n counts the calls.
Transport(a, primaryEmail) ==
  [ n |-> mail.n + 1, a |-> a, to |-> primaryEmail,
    cc |-> ccEmailsOf(a.additional_emails, primaryEmail) ]

\* A new request is served by the first handler slot that is free.
FreeProc(p) == proc[p] = Idle /\ \A q \in Procs : q < p => proc[q] # Idle

\* A handler that writes the sent flag whether the transport call returned or
\* rejected.
AfterTransportUnchecked(db, id, t, ok) == MarkSent(db, id, t)

\* try { await sendInvitation(...); db.prepare('UPDATE ...').run(t, id) } catch ...
\* the table once the transport call has returned (ok) or rejected.
AfterTransport(db, id, t, ok) == IF ok THEN MarkSent(db, id, t) ELSE db

\* POST /attendees/send/:attendeeId, up to the await of the transport.
SendOneStart(p, attendeeId) ==
  /\ Arrives
  /\ FreeProc(p)
  /\ LET found == attendeeId \in DOMAIN attendees
         a == Invitee(attendees, attendeeId)
         primaryEmail == toLowerCase(trim(a.email))
     IN IF ~found
        THEN /\ resp' = [op |-> "send-one", kind |-> "404", id |-> attendeeId]
             /\ UNCHANGED <<proc, mail>>
        ELSE IF ~Truthy(primaryEmail)
        THEN /\ resp' = [op |-> "send-one", kind |-> "redirect-error-missing-email",
                         id |-> attendeeId]
             /\ UNCHANGED <<proc, mail>>
        ELSE /\ proc' = [proc EXCEPT ![p] = [pc |-> "send-one", a |-> a]]
             /\ mail' = Transport(a, primaryEmail)
             /\ resp' = [op |-> "send-one", kind |-> "awaiting", id |-> attendeeId]
  /\ calls' = calls + 1
  /\ prev' = [db |-> attendees, mailn |-> mail.n]
  /\ serial' = serial
  /\ last' = [op |-> "send-one", attendeeId |-> attendeeId]
  /\ UNCHANGED <<attendees, now, tokctr>>

\* The transport call of send-one returns (ok) or rejects.
SendOneResume(p, ok) ==
  /\ proc[p].pc = "send-one"
  /\ attendees' = AfterTransport(attendees, proc[p].a.id, now, ok)
  /\ resp' = [ op |-> "send-one",
               kind |-> IF ok THEN "redirect" ELSE "redirect-error-send",
               id |-> proc[p].a.id ]
  /\ proc' = [proc EXCEPT ![p] = Idle]
  /\ last' = [op |-> "send-one-resume", ok |-> ok, id |-> proc[p].a.id, at |-> now]
  /\ prev' = [db |-> attendees, mailn |-> mail.n]
  /\ serial' = serial
  /\ UNCHANGED <<now, tokctr, mail, calls>>

RECURSIVE SkipMissingEmails(_, _, _)
\* The loop of send-all-pending from position i on, up to the next attendee
\* with a primary email: the position reached and the outcomes so far.
SkipMissingEmails(pending, i, results) ==
  IF i > Len(pending) THEN [i |-> i, results |-> results]
  ELSE IF ~Truthy(toLowerCase(trim(pending[i].email)))
       THEN SkipMissingEmails(pending, i + 1, Append(results, "skipped"))
       ELSE [i |-> i, results |-> results]

\* The response that ends send-all-pending.
BatchResponse(eventId, pending, results, overallSuccess) ==
  [ op |-> "send-invites",
    kind |-> IF overallSuccess THEN "redirect" ELSE "redirect-error",
    eventId |-> eventId, pending |-> pending, results |-> results ]

\* A loop that ends at the first failed send and responds.
BatchStopAtFailure(p, st, i, results, overallSuccess) ==
  LET adv == SkipMissingEmails(st.pending, i, results)
  IN IF adv.i > Len(st.pending) \/ ~overallSuccess
     THEN /\ proc' = [proc EXCEPT ![p] = Idle]
          /\ mail' = mail
          /\ resp' = BatchResponse(st.eventId, st.pending, results, overallSuccess)
     ELSE /\ proc' = [proc EXCEPT ![p] =
                        [ pc |-> "send-invites", eventId |-> st.eventId,
                          now |-> st.now, pending |-> st.pending, i |-> adv.i,
                          results |-> adv.results,
                          overallSuccess |-> overallSuccess ]]
          /\ mail' = Transport(st.pending[adv.i], toLowerCase(trim(st.pending[adv.i].email)))
          /\ resp' = [op |-> "send-invites", kind |-> "awaiting", eventId |-> st.eventId]

\* A loop that calls the transport again for an attendee whose send failed.
BatchRetryFailed(p, st, i, results, overallSuccess) ==
  LET adv == IF results # <<>> /\ results[Len(results)] = "failed"
             THEN [i |-> i - 1, results |-> SubSeq(results, 1, Len(results) - 1)]
             ELSE SkipMissingEmails(st.pending, i, results)
  IN IF adv.i > Len(st.pending)
     THEN /\ proc' = [proc EXCEPT ![p] = Idle]
          /\ mail' = mail
          /\ resp' = BatchResponse(st.eventId, st.pending, adv.results, overallSuccess)
     ELSE /\ proc' = [proc EXCEPT ![p] =
                        [ pc |-> "send-invites", eventId |-> st.eventId,
                          now |-> st.now, pending |-> st.pending, i |-> adv.i,
                          results |-> adv.results,
                          overallSuccess |-> overallSuccess ]]
          /\ mail' = Transport(st.pending[adv.i], toLowerCase(trim(st.pending[adv.i].email)))
          /\ resp' = [op |-> "send-invites", kind |-> "awaiting", eventId |-> st.eventId]

\* The loop runs on from position i: it suspends at the next transport call,
\* or it ends and responds.
BatchContinue(p, st, i, results, overallSuccess) ==
  LET adv == SkipMissingEmails(st.pending, i, results)
  IN IF adv.i > Len(st.pending)
     THEN /\ proc' = [proc EXCEPT ![p] = Idle]
          /\ mail' = mail
          /\ resp' = BatchResponse(st.eventId, st.pending, adv.results, overallSuccess)
     ELSE /\ proc' = [proc EXCEPT ![p] =
                        [ pc |-> "send-invites", eventId |-> st.eventId,
                          now |-> st.now, pending |-> st.pending, i |-> adv.i,
                          results |-> adv.results,
                          overallSuccess |-> overallSuccess ]]
          /\ mail' = Transport(st.pending[adv.i], toLowerCase(trim(st.pending[adv.i].email)))
          /\ resp' = [op |-> "send-invites", kind |-> "awaiting", eventId |-> st.eventId]

\* POST /events/:eventId/send-invites, up to the first await of the transport.
SendAllStart(p, eventId) ==
  /\ Arrives
  /\ FreeProc(p)
  /\ LET ids == SetToSortedSeq({id \in DOMAIN attendees :
                                  /\ attendees[id].event_id = eventId
                                  /\ ~attendees[id].is_sent})
         pending == [k \in DOMAIN ids |-> Invitee(attendees, ids[k])]
     IN BatchContinue(p, [eventId |-> eventId, now |-> now, pending |-> pending],
                      1, <<>>, TRUE)
  /\ calls' = calls + 1
  /\ prev' = [db |-> attendees, mailn |-> mail.n]
  /\ serial' = serial
  /\ last' = [op |-> "send-invites", eventId |-> eventId]
  /\ UNCHANGED <<attendees, now, tokctr>>

\* The transport call send-all-pending awaits returns (ok) or rejects, and the
\* loop runs on.
SendAllResume(p, ok) ==
  /\ proc[p].pc = "send-invites"
  /\ LET st == proc[p]
         a == st.pending[st.i]
     IN /\ attendees' = AfterTransport(attendees, a.id, st.now, ok)
        /\ BatchContinue(p, st, st.i + 1,
                         Append(st.results, IF ok THEN "sent" ELSE "failed"),
                         IF ok THEN st.overallSuccess ELSE FALSE)
  /\ last' = [ op |-> "send-invites-resume", ok |-> ok,
               id |-> proc[p].pending[proc[p].i].id,
               to |-> toLowerCase(trim(proc[p].pending[proc[p].i].email)) ]
  /\ prev' = [db |-> attendees, mailn |-> mail.n]
  /\ serial' = serial
  /\ UNCHANGED <<now, tokctr, calls>>

----
\* The statistics of an event.

\* The result of SELECT SUM(...) over no rows.
NumNull == [num |-> "null"]

RECURSIVE SumPartySize(_, _)
\* SUM(party_size) over the rows ids of the table: NULL when there is no row.
SumPartySize(db, ids) ==
  IF ids = <<>> THEN NumNull
  ELSE LET rest == SumPartySize(db, Tail(ids))
       IN Num(db[Head(ids)].party_size + (IF rest = NumNull THEN 0 ELSE rest.v))

\* row?.sum_party ?? 0
SumOrZero(sum_party) == IF sum_party \in {NumNull, NumUndefined} THEN 0 ELSE sum_party.v

\* WHERE event_id = ? AND is_sent = 1 AND rsvp IS NULL, without the sent flag.
WhereAwaitingReplySentOrNot(row, eventId) ==
  row.event_id = eventId /\ row.rsvp = NoRsvp

\* The WHERE clauses of the six statements.
WherePotential(row, eventId) == row.event_id = eventId
WhereNotSent(row, eventId) == row.event_id = eventId /\ row.is_sent = FALSE
WhereInvited(row, eventId) == row.event_id = eventId /\ row.is_sent = TRUE
WhereAwaitingReply(row, eventId) ==
  row.event_id = eventId /\ row.is_sent = TRUE /\ row.rsvp = NoRsvp
WhereAttending(row, eventId) ==
  row.event_id = eventId /\ row.is_sent = TRUE /\ row.rsvp = "yes"
WhereNotAttending(row, eventId) ==
  row.event_id = eventId /\ row.is_sent = TRUE /\ row.rsvp = "no"

getEventAttendeeStats(db, eventId) ==
  LET sum(Where(_, _)) ==
        SumOrZero(SumPartySize(db, SetToSortedSeq({id \in DOMAIN db : Where(db[id], eventId)})))
  IN [ potentialGuests |-> sum(WherePotential),
       guestsNotSent |-> sum(WhereNotSent),
       guestsInvited |-> sum(WhereInvited),
       guestsAwaitingReply |-> sum(WhereAwaitingReply),
       guestsAttending |-> sum(WhereAttending),
       guestsNotAttending |-> sum(WhereNotAttending) ]

\* The admin page of an event asks for its statistics.
GetStats(eventId) ==
  /\ Arrives
  /\ resp' = [op |-> "stats", kind |-> "ok", stats |-> getEventAttendeeStats(attendees, eventId)]
  /\ calls' = calls + 1
  /\ prev' = [db |-> attendees, mailn |-> mail.n]
  /\ serial' = serial
  /\ last' = [op |-> "stats", event_id |-> eventId]
  /\ UNCHANGED <<attendees, now, tokctr, proc, mail>>

----
\* Specifications.

Next ==
  \/ Tick
  \/ \E a \in UpsertArgs : UpsertCall(a)
  \/ \E e \in Events, csv \in CsvTexts : BatchAdd(e, csv)
  \/ \E e \in Events, data \in EmailFieldData : ParseEmails(e, data)
  \/ \E from \in Events, to \in Events : CopyAttendees(from, to)
  \/ \E id \in RequestIds, size \in PartySizeTexts : UpdatePartySize(id, size)
  \/ \E id \in RequestIds, name \in {NameBlank, NameN}, email \in NewPrimaryEmails,
        more \in AdditionalEmailsTexts : UpdateEmails(id, name, email, more)
  \/ \E id \in RequestIds : DeleteAttendee(id)
  \/ \E token \in RequestTokens, form \in RsvpForms : SubmitRsvp(token, form)
  \/ \E route \in {"rsvp-form", "ics"}, token \in RequestTokens : ViewByToken(route, token)
  \/ \E p \in Procs, id \in RequestIds : SendOneStart(p, id)
  \/ \E p \in Procs, e \in Events : SendAllStart(p, e)
  \/ \E p \in Procs, ok \in BOOLEAN : SendOneResume(p, ok)
  \/ \E p \in Procs, ok \in BOOLEAN : SendAllResume(p, ok)
  \/ \E e \in Events : GetStats(e)

Spec == Init /\ [][Next]_vars

\* Every transport call returns or rejects, and the handler that awaits it
\* then runs on.
TransportReturns ==
  \A p \in Procs :
    /\ WF_vars(\E ok \in BOOLEAN : SendAllResume(p, ok))
    /\ WF_vars(\E ok \in BOOLEAN : SendOneResume(p, ok))

\* The senders and the requests that change the rows they read.
NextSend ==
  \/ Tick
  \/ \E id \in RequestIds : DeleteAttendee(id)
  \/ \E p \in Procs, id \in RequestIds : SendOneStart(p, id)
  \/ \E p \in Procs, e \in Events : SendAllStart(p, e)
  \/ \E p \in Procs, ok \in BOOLEAN : SendOneResume(p, ok)
  \/ \E p \in Procs, ok \in BOOLEAN : SendAllResume(p, ok)

SpecLive == Init /\ [][NextSend]_vars /\ TransportReturns

\* The clients make one request at a time.
InitSeq == InitWith(SeedTables, TRUE)

SpecSeq == InitSeq /\ [][Next]_vars

\* The database file holds rows written by other means than these handlers.
InitLegacy == InitWith(LegacyTables, FALSE)

SpecLegacy == InitLegacy /\ [][Next]_vars

\* ---------------------------------------------------------------------------
\* Properties
\* ---------------------------------------------------------------------------

\* The rows the latest handler step found and left in the table.
Kept == DOMAIN prev.db \cap DOMAIN attendees

\* The row of prev.db upsertAttendee reconciles the arguments a with, or 0.
KeyRow(a) ==
  LET ids == {id \in DOMAIN prev.db :
                /\ prev.db[id].event_id = a.event_id
                /\ prev.db[id].email = toLowerCase(trim(a.primaryEmail))}
  IN IF ids = {} THEN 0 ELSE CHOOSE id \in ids : TRUE

\* The operations that reconcile through upsertAttendee.
ReconcileOps == {"upsertAttendee", "batch", "parse-emails", "copy", "update-party-size"}

\* C1: once an attendee's RSVP response is set, no upsertAttendee call (direct
\* or through the batch, parse and copy routes) and no update-party-size
\* request changes the attendee's stored party size, whatever size is given.
C1_PartySizeFrozenAfterRsvp ==
  last.op \in ReconcileOps =>
    \A id \in Kept :
      prev.db[id].rsvp # NoRsvp => attendees[id].party_size = prev.db[id].party_size

\* An upsertAttendee call has reconciled a responded attendee with a party size
\* that differs from the stored one.
C1_Witness ==
  /\ last.op = "upsertAttendee"
  /\ resp.kind = "ok"
  /\ KeyRow(last.args) # 0
  /\ prev.db[KeyRow(last.args)].rsvp # NoRsvp
  /\ last.args.party_size.num = "int"
  /\ finalPartySizeOf(last.args.party_size) # prev.db[KeyRow(last.args)].party_size
  /\ attendees[KeyRow(last.args)].last_modified = last.at

\* C2: no two attendee rows of one event have the same trimmed, lowercased
\* primary email.
C2_UniqueNormalizedEmail ==
  \A i, j \in DOMAIN attendees :
    (/\ i # j
     /\ attendees[i].event_id = attendees[j].event_id)
    => toLowerCase(trim(attendees[i].email)) # toLowerCase(trim(attendees[j].email))

\* An upsertAttendee call whose email differs from the stored one by case and
\* surrounding whitespace has been reconciled with the stored row.
C2_Witness ==
  /\ last.op = "upsertAttendee"
  /\ resp.kind = "ok"
  /\ last.args.primaryEmail = EmailAVariant
  /\ KeyRow(last.args) # 0
  /\ DOMAIN attendees = DOMAIN prev.db
  /\ attendees[KeyRow(last.args)].email = EmailA

\* C3 as claimed: the batch route and the parse route leave the stored
\* additional emails of every attendee that already exists as they were.
C3_ImportKeepsAdditionalEmails ==
  last.op \in {"batch", "parse-emails"} =>
    \A id \in Kept :
      attendees[id].additional_emails = prev.db[id].additional_emails

\* The response that ends a send-all-pending request is the latest step.
BatchFinished == resp.op = "send-invites" /\ resp.kind # "awaiting"

\* C4: when send-all-pending finishes, every attendee of the pending list has
\* been handled, those with a primary email by a transport call, whatever
\* happened to the attendees before them; the attendees whose transport call
\* succeeded have the sent flag set, and those whose send failed or was
\* skipped have it unset.
C4_BatchContinuesAndMarksPerAttendee ==
  BatchFinished =>
    /\ Len(resp.results) = Len(resp.pending)
    /\ \A i \in 1..Len(resp.pending) :
         LET a == resp.pending[i]
         IN /\ i <= Len(resp.results)
            /\ a.id \in DOMAIN attendees
            /\ Truthy(toLowerCase(trim(a.email))) => resp.results[i] \in {"sent", "failed"}
            /\ ~Truthy(toLowerCase(trim(a.email))) => resp.results[i] = "skipped"
            /\ attendees[a.id].is_sent <=> resp.results[i] = "sent"

\* A batch has finished in which an attendee after a failed one and after a
\* skipped one was sent.
C4_Witness ==
  /\ BatchFinished
  /\ \E i, j, k \in 1..Len(resp.results) :
       /\ i < k /\ j < k
       /\ resp.results[i] = "failed"
       /\ resp.results[j] = "skipped"
       /\ resp.results[k] = "sent"
       /\ attendees[resp.pending[k].id].is_sent
       /\ ~attendees[resp.pending[i].id].is_sent

\* C5 as claimed: send-all-pending reports the aggregate failure exactly when
\* an attendee of the pending list was not sent, skipped attendees included.
C5_AggregateFailureIffNotAllSent ==
  BatchFinished =>
    (resp.kind = "redirect-error"
       <=> \E i \in 1..Len(resp.results) : resp.results[i] # "sent")

\* The row after the sent flag and last-modified were written at time t.
SentAt(row, t) == [row EXCEPT !.is_sent = TRUE, !.last_modified = t]

\* C6: send-one writes nothing before the transport call has returned; with an
\* empty primary email it reports an error without calling the transport; when
\* the transport call fails it leaves every row as it was and reports the
\* failure; when the call succeeds it sets the sent flag and last-modified of
\* the attendee and nothing else.
C6_SendOneMarksOnlyAfterSuccess ==
  /\ last.op = "send-one" =>
       /\ attendees = prev.db
       /\ (/\ last.attendeeId \in DOMAIN prev.db
           /\ ~Truthy(toLowerCase(trim(prev.db[last.attendeeId].email))))
          => /\ mail.n = prev.mailn
             /\ resp.kind = "redirect-error-missing-email"
       /\ resp.kind = "awaiting" => mail.n = prev.mailn + 1
  /\ (last.op = "send-one-resume" /\ ~last.ok) =>
       /\ attendees = prev.db
       /\ resp.kind = "redirect-error-send"
  /\ (last.op = "send-one-resume" /\ last.ok) =>
       /\ DOMAIN attendees = DOMAIN prev.db
       /\ resp.kind = "redirect"
       /\ \A id \in DOMAIN attendees :
            attendees[id] = IF id = last.id THEN SentAt(prev.db[id], last.at) ELSE prev.db[id]

\* The transport call of a send-one request for an unsent attendee has failed,
\* and the attendee is still unsent.
C6_Witness ==
  /\ last.op = "send-one-resume"
  /\ ~last.ok
  /\ last.id \in DOMAIN attendees
  /\ ~attendees[last.id].is_sent
  /\ resp.kind = "redirect-error-send"

\* The stored additional-emails text is not a JSON array.
Corrupt(additional_emails) ==
  additional_emails.kind \notin {"null", "array"}

\* C7: the CC list of a transport call never contains the normalized primary
\* email, and it is empty when the stored additional-emails value is not
\* parseable or not an array; such a value on an attendee with a primary email
\* does not keep send-one or send-all-pending from calling the transport, and
\* the attendee is marked sent when the call succeeds.
C7_CorruptAdditionalEmailsNeverBlock ==
  /\ mail.n > 0 =>
       /\ mail.to = toLowerCase(trim(mail.a.email))
       /\ \A k \in 1..Len(mail.cc) : mail.cc[k] # mail.to
       /\ Corrupt(mail.a.additional_emails) => mail.cc = <<>>
  /\ (/\ last.op = "send-one"
      /\ last.attendeeId \in DOMAIN prev.db
      /\ Corrupt(prev.db[last.attendeeId].additional_emails)
      /\ Truthy(toLowerCase(trim(prev.db[last.attendeeId].email))))
     => /\ mail.n = prev.mailn + 1
        /\ mail.a.id = last.attendeeId
        /\ resp.kind = "awaiting"
  /\ (/\ last.op \in {"send-one-resume", "send-invites-resume"}
      /\ last.ok
      /\ last.id \in DOMAIN prev.db)
     => attendees[last.id].is_sent
  /\ BatchFinished =>
       \A i \in 1..Len(resp.pending) :
         (/\ Corrupt(resp.pending[i].additional_emails)
          /\ Truthy(toLowerCase(trim(resp.pending[i].email))))
         => resp.results[i] \in {"sent", "failed"}

\* send-all-pending has sent to an attendee whose stored additional-emails
\* value is not parseable, with an empty CC list, and marked the attendee.
C7_Witness ==
  /\ last.op = "send-invites-resume"
  /\ last.ok
  /\ last.id \in DOMAIN attendees
  /\ last.id \in DOMAIN prev.db
  /\ Corrupt(prev.db[last.id].additional_emails)
  /\ ~prev.db[last.id].is_sent
  /\ attendees[last.id].is_sent

\* C8: when upsertAttendee finds an existing row, the stored name becomes the
\* provided name if that is a non-empty string and stays the stored name if
\* it is the empty string; with the empty name the party size of an attendee
\* who has not responded is still updated.
C8_NameOverwrittenOnlyWhenNonEmpty ==
  (/\ last.op = "upsertAttendee"
   /\ resp.kind = "ok"
   /\ KeyRow(last.args) # 0)
  => LET id == KeyRow(last.args)
     IN /\ DOMAIN attendees = DOMAIN prev.db
        /\ attendees[id].name = IF last.args.name # <<>> THEN last.args.name
                                ELSE prev.db[id].name
        /\ (/\ last.args.name = <<>>
            /\ prev.db[id].rsvp = NoRsvp
            /\ last.args.party_size.num = "int"
            /\ last.args.party_size.v >= 1)
           => attendees[id].party_size = last.args.party_size.v

\* upsertAttendee was called with the empty name on a named row; the name was
\* kept and the party size updated.
C8_Witness ==
  /\ last.op = "upsertAttendee"
  /\ resp.kind = "ok"
  /\ KeyRow(last.args) # 0
  /\ last.args.name = <<>>
  /\ prev.db[KeyRow(last.args)].name = NameN
  /\ attendees[KeyRow(last.args)].name = NameN
  /\ attendees[KeyRow(last.args)].party_size # prev.db[KeyRow(last.args)].party_size

\* C9 as claimed: a provided name that is empty after trimming does not
\* overwrite the name stored on an existing row.
C9_WhitespaceNameTreatedAsAbsent ==
  (/\ last.op = "upsertAttendee"
   /\ resp.kind = "ok"
   /\ KeyRow(last.args) # 0
   /\ trim(last.args.name) = <<>>)
  => attendees[KeyRow(last.args)].name = prev.db[KeyRow(last.args)].name

\* The second of two successive upsertAttendee calls with the same arguments
\* has returned.
RepeatedUpsert ==
  /\ last.op = "upsertAttendee"
  /\ last.repeated
  /\ resp.kind = "ok"

\* The second call created no row and left name, party size and additional
\* emails as the first call left them.
RepeatKeepsFields ==
  /\ DOMAIN attendees = DOMAIN prev.db
  /\ KeyRow(last.args) # 0
  /\ LET id == KeyRow(last.args)
     IN /\ attendees[id].name = prev.db[id].name
        /\ attendees[id].party_size = prev.db[id].party_size
        /\ attendees[id].additional_emails = prev.db[id].additional_emails

\* C10 as claimed: the second of two identical upsertAttendee calls creates no
\* row, keeps name, party size and additional emails, and makes last-modified
\* strictly greater than the first call left it.
C10_RepeatStrictlyAdvances ==
  RepeatedUpsert =>
    /\ RepeatKeepsFields
    /\ attendees[KeyRow(last.args)].last_modified > prev.db[KeyRow(last.args)].last_modified

\* C10 amended: the second of two identical upsertAttendee calls creates no
\* row, keeps name, party size and additional emails, and sets last-modified
\* to the clock reading of the second call, which is never less than the first
\* call left it and is greater exactly when the clock advanced in between.
C10_RepeatStampsClock ==
  RepeatedUpsert =>
    /\ RepeatKeepsFields
    /\ attendees[KeyRow(last.args)].last_modified = last.at
    /\ attendees[KeyRow(last.args)].last_modified >= prev.db[KeyRow(last.args)].last_modified

\* Two identical calls were made with a clock tick in between, and the second
\* stamped the row with the later time.
C10_Witness ==
  /\ RepeatedUpsert
  /\ KeyRow(last.args) # 0
  /\ prev.db[KeyRow(last.args)].last_modified < last.at
  /\ attendees[KeyRow(last.args)].last_modified = last.at

\* The stored additional emails of a row are NULL or a non-empty JSON array of
\* trimmed, lowercased, pairwise distinct, non-empty strings other than the
\* row's primary email.
AdditionalEmailsWellFormed(row) ==
  \/ row.additional_emails = SqlNull
  \/ /\ row.additional_emails.kind = "array"
     /\ row.additional_emails.items # <<>>
     /\ LET items == row.additional_emails.items
        IN \A k \in DOMAIN items :
             /\ items[k] # <<>>
             /\ items[k] = toLowerCase(trim(items[k]))
             /\ items[k] # row.email
             /\ \A j \in DOMAIN items : j # k => items[j] # items[k]

\* C11: every attendee's stored additional emails are NULL or a non-empty list
\* of trimmed, lowercased, pairwise distinct strings none of which is the
\* attendee's primary email.
C11_AdditionalEmailsNormalized ==
  \A id \in DOMAIN attendees : AdditionalEmailsWellFormed(attendees[id])

\* upsertAttendee was called for a@x.y with the array [" A@x.y ", b@x.y,
\* b@x.y] and the row holds exactly [b@x.y].
C11_Witness ==
  /\ last.op = "upsertAttendee"
  /\ resp.kind = "ok"
  /\ last.args.additionalEmailsArray = Arr(<<EmailAVariant, EmailB, EmailB>>)
  /\ toLowerCase(trim(last.args.primaryEmail)) = EmailA
  /\ resp.id \in DOMAIN attendees
  /\ attendees[resp.id].email = EmailA
  /\ attendees[resp.id].additional_emails = JSONstringify(<<EmailB>>)

\* The normalized entries of a provided array other than '' and the primary.
ProvidedSet(arr, primaryEmail) ==
  {toLowerCase(trim(arr[k])) : k \in DOMAIN arr} \ {<<>>, toLowerCase(trim(primaryEmail))}

\* The stored text holds exactly the strings of the set S, each once; NULL
\* stands for the empty set.
StoresSet(text, S) ==
  IF S = {} THEN text = SqlNull
  ELSE /\ text.kind = "array"
       /\ {text.items[k] : k \in DOMAIN text.items} = S
       /\ Len(text.items) = Cardinality(S)

\* C12: on an existing row upsertAttendee leaves the stored additional emails
\* as they were when the array argument is undefined, and otherwise stores the
\* normalized, deduplicated, primary-excluded set of the array, NULL when that
\* set is empty.
C12_AdditionalEmailsOnlyWhenProvided ==
  (/\ last.op = "upsertAttendee"
   /\ resp.kind = "ok"
   /\ KeyRow(last.args) # 0)
  => LET id == KeyRow(last.args)
         arr == last.args.additionalEmailsArray
     IN IF arr.arr = "undefined"
        THEN attendees[id].additional_emails = prev.db[id].additional_emails
        ELSE StoresSet(attendees[id].additional_emails,
                       ProvidedSet(arr.items, last.args.primaryEmail))

\* upsertAttendee was called without the array for a row that holds additional
\* emails, and they are still there.
C12_Witness ==
  /\ last.op = "upsertAttendee"
  /\ resp.kind = "ok"
  /\ KeyRow(last.args) # 0
  /\ last.args.additionalEmailsArray = ArrUndefined
  /\ prev.db[KeyRow(last.args)].additional_emails # SqlNull
  /\ attendees[KeyRow(last.args)].additional_emails = prev.db[KeyRow(last.args)].additional_emails

\* The ids of the rows the latest step created.
Created == DOMAIN attendees \ DOMAIN prev.db

\* C13: when upsertAttendee finds no row for the event and the normalized
\* email, it inserts exactly one row and changes no other: the row holds the
\* normalized email, the provided party size if that is an integer >= 1 and 1
\* otherwise, the sent flag false, no RSVP response and no response time, and
\* the time of the call as last-modified.
C13_InsertDefaults ==
  (/\ last.op = "upsertAttendee"
   /\ resp.kind = "ok"
   /\ KeyRow(last.args) = 0)
  => /\ Cardinality(Created) = 1
     /\ \A id \in DOMAIN prev.db : id \in DOMAIN attendees /\ attendees[id] = prev.db[id]
     /\ \A id \in Created :
          LET row == attendees[id]
              p == last.args.party_size
          IN /\ row.event_id = last.args.event_id
             /\ row.email = toLowerCase(trim(last.args.primaryEmail))
             /\ row.name = last.args.name
             /\ row.party_size = IF p.num = "int" /\ p.v >= 1 THEN p.v ELSE 1
             /\ row.is_sent = FALSE
             /\ row.rsvp = NoRsvp
             /\ row.responded_at = NoTime
             /\ row.last_modified = last.at

\* upsertAttendee has inserted a row for a party size of zero or less, and the
\* row holds 1.
C13_Witness ==
  /\ last.op = "upsertAttendee"
  /\ resp.kind = "ok"
  /\ KeyRow(last.args) = 0
  /\ last.args.party_size.num = "int"
  /\ last.args.party_size.v < 1
  /\ \E id \in Created : attendees[id].party_size = 1 /\ ~attendees[id].is_sent

\* C14: no handler step changes the token of a row it finds and leaves in the
\* table, so a row keeps the token it was created with.
C14_TokenImmutable ==
  \A id \in Kept : attendees[id].token = prev.db[id].token

\* upsertAttendee has updated the name of an existing row, and the row has the
\* token it had.
C14_Witness ==
  /\ last.op = "upsertAttendee"
  /\ resp.kind = "ok"
  /\ KeyRow(last.args) # 0
  /\ attendees[KeyRow(last.args)].name # prev.db[KeyRow(last.args)].name
  /\ attendees[KeyRow(last.args)].token = prev.db[KeyRow(last.args)].token

----
\* upsertAttendee with its lookup and its write as two steps, as they would run
\* if two calls interleaved (two processes that share the database file).

\* INSERT INTO attendees: the table rejects the row only for its token (token
\* TEXT NOT NULL UNIQUE is the one uniqueness constraint of the table).
StoreInsert(db, row) ==
  IF TokenTaken(db, row.token)
  THEN [threw |-> TRUE, db |-> db]
  ELSE [ threw |-> FALSE,
         db |-> [i \in DOMAIN db \cup {NextRowId(db)} |->
                   IF i = NextRowId(db) THEN row ELSE db[i]] ]

\* UPDATE attendees SET ... WHERE id=?: the columns the call decided to write
\* from the row it looked up, written to the row as it is now.
StoreUpdate(db, id, seen, t, name, party_size, additionalEmailsJson) ==
  IF id \notin DOMAIN db THEN db
  ELSE LET u == UpdatedRow(seen, t, name, party_size, additionalEmailsJson)
       IN [db EXCEPT ![id] =
             [@ EXCEPT
                !.last_modified = t,
                !.name = IF Truthy(name) THEN name ELSE @,
                !.party_size = IF u.party_size # seen.party_size THEN u.party_size ELSE @,
                !.additional_emails =
                   IF u.additional_emails # seen.additional_emails
                   THEN u.additional_emails ELSE @]]

\* The SELECT statements of upsertAttendee and its reading of the clock.
UpsertLookup(p, a) ==
  /\ calls < MaxCalls
  /\ proc[p] = Idle
  /\ LET existing == ExistingIds(attendees, a.event_id, normalizeEmail(a.primaryEmail))
     IN proc' = [proc EXCEPT ![p] =
                   [ pc |-> "upsert", args |-> a, now |-> now,
                     existing |-> existing,
                     seen |-> IF existing = {} THEN [none |-> TRUE]
                              ELSE attendees[Min(existing)] ]]
  /\ calls' = calls + 1
  /\ last' = [op |-> "upsert-lookup", args |-> a]
  /\ resp' = [op |-> "upsertAttendee", kind |-> "awaiting"]
  /\ prev' = [db |-> attendees, mailn |-> mail.n]
  /\ UNCHANGED <<attendees, now, tokctr, mail, serial>>

\* The UPDATE or the INSERT of upsertAttendee, after the lookup of the same call.
UpsertWrite(p) ==
  /\ proc[p].pc = "upsert"
  /\ LET st == proc[p]
         a == st.args
         trimmedPrimaryEmail == normalizeEmail(a.primaryEmail)
         additionalEmailsJson ==
           additionalEmailsJsonOf(a.additionalEmailsArray, trimmedPrimaryEmail)
         ins == StoreInsert(attendees,
                  InsertedRow(a.event_id, a.name, trimmedPrimaryEmail,
                              finalPartySizeOf(a.party_size), tokctr + 1, st.now,
                              IF additionalEmailsJson = JsUndefined THEN SqlNull
                              ELSE additionalEmailsJson))
     IN IF st.existing # {}
        THEN /\ attendees' = StoreUpdate(attendees, Min(st.existing), st.seen, st.now,
                                         a.name, a.party_size, additionalEmailsJson)
             /\ tokctr' = tokctr
             /\ resp' = [op |-> "upsertAttendee", kind |-> "ok", inserted |-> FALSE]
        ELSE /\ attendees' = ins.db
             /\ tokctr' = tokctr + 1
             /\ resp' = [ op |-> "upsertAttendee",
                          kind |-> IF ins.threw THEN "threw" ELSE "ok",
                          inserted |-> ~ins.threw ]
  /\ proc' = [proc EXCEPT ![p] = Idle]
  /\ last' = [op |-> "upsert-write", args |-> proc[p].args]
  /\ prev' = [db |-> attendees, mailn |-> mail.n]
  /\ UNCHANGED <<now, mail, calls, serial>>

\* The calls that race: named attendees, no additional-emails argument.
RaceArgs ==
  {a \in UpsertArgs : a.name = NameN /\ a.additionalEmailsArray = ArrUndefined}

NextRace ==
  \/ Tick
  \/ \E p \in Procs, a \in RaceArgs : UpsertLookup(p, a)
  \/ \E p \in Procs : UpsertWrite(p)

SpecRace == Init /\ [][NextRace]_vars

\* C15 as claimed: the attendees table never holds two rows of one event with
\* the same primary email, the lookup and the insert of two upsertAttendee
\* calls interleaving as they may.
C15_StoreRejectsDuplicateKey ==
  \A i, j \in DOMAIN attendees :
    (attendees[i].event_id = attendees[j].event_id /\ attendees[i].email = attendees[j].email)
    => i = j

\* The text is thirty-two characters, each a digit or a letter from a to f.
HasTokenFormat(text) ==
  /\ Len(text) = 32
  /\ \A i \in 1..Len(text) :
       text[i] \in {"0", "1", "2", "3", "4", "5", "6", "7", "8", "9",
                    "a", "b", "c", "d", "e", "f"}

\* C16: GET /rsvp/:tok, POST /rsvp/:token and GET /ics/:token answer a token
\* that does not match ^[0-9a-f]{32}$ with the format error, even when a row
\* is stored under that text, and leave every attendee as it was.
C16_MalformedTokenRejected ==
  (last.op \in {"rsvp", "rsvp-form", "ics"} /\ ~HasTokenFormat(last.token))
  => /\ resp.kind = "400-token"
     /\ attendees = prev.db

\* An RSVP 'yes' was posted with the text under which a row is stored and
\* which is no token; it was rejected and the row has no response.
C16_Witness ==
  /\ last.op = "rsvp"
  /\ last.form.rsvp = "yes"
  /\ ~HasTokenFormat(last.token)
  /\ resp.kind = "400-token"
  /\ \E id \in DOMAIN attendees :
       HexToken(attendees[id].token) = last.token /\ attendees[id].rsvp = NoRsvp

----
\* parseCsvTsvLine

\* deriveNameFromEmail({name, address})
deriveNameFromEmail(name, address) ==
  IF Truthy(name) THEN name
  ELSE IF ~Truthy(address) THEN <<>>
  ELSE IF \A i \in DOMAIN address : address[i] # "@" THEN address
  ELSE deriveNameFromAddress(address)

\* A delimiter that is the comma whatever the line holds.
delimiterComma(line) == ","

\* line.includes('\t') ? '\t' : ','
delimiterOf(line) == IF \E i \in DOMAIN line : line[i] = "\t" THEN "\t" ELSE ","

RECURSIVE scanColumns(_, _, _, _, _, _)
\* The loop over the characters of the line from position i on, and the push
\* of the last column; quoteChar is "" for null.
scanColumns(line, i, columns, currentColumn, inQuotes, quoteChar) ==
  IF i > Len(line) THEN Append(columns, trim(currentColumn))
  ELSE LET char == line[i]
       IN IF ~inQuotes /\ char \in {"\"", "'"}
          THEN scanColumns(line, i + 1, columns, currentColumn, TRUE, char)
          ELSE IF inQuotes /\ char = quoteChar
          THEN scanColumns(line, i + 1, columns, currentColumn, FALSE, "")
          ELSE IF ~inQuotes /\ char = delimiterOf(line)
          THEN scanColumns(line, i + 1, Append(columns, trim(currentColumn)), <<>>,
                           inQuotes, quoteChar)
          ELSE scanColumns(line, i + 1, columns, Append(currentColumn, char),
                           inQuotes, quoteChar)

\* return null
NoMatch == [match |-> FALSE, email |-> <<>>, name |-> <<>>, party_size |-> 0]

IsEmailColumn(col) == Truthy(col) /\ EmailRegexTest(col)
IsNameColumn(col) == Truthy(col) /\ ~EmailRegexTest(col)

parseCsvTsvLine(line) ==
  IF ~Truthy(line) \/ ~Truthy(trim(line)) THEN NoMatch
  ELSE LET columns == scanColumns(line, 1, <<>>, <<>>, FALSE, "")
           emails == SelectSeq(columns, IsEmailColumn)
           names == SelectSeq(columns, IsNameColumn)
       IN IF emails = <<>> THEN NoMatch
          ELSE [ match |-> TRUE,
                 email |-> emails[1],
                 name |-> IF names # <<>> THEN names[1]
                          ELSE deriveNameFromEmail(<<>>, emails[1]),
                 party_size |-> Len(emails) ]

\* Number of pieces a line is put together from.
MaxPieces == 5

\* The pieces of the lines: an address, a letter, the two delimiters, the two
\* quote characters and a blank.
Pieces ==
  { EmailA, <<"n">>, <<",">>, <<"\t">>, <<"\"">>, <<"'">>, <<" ">> }

RECURSIVE LinesOf(_)
LinesOf(k) ==
  IF k = 0 THEN {<<>>}
  ELSE LinesOf(k - 1) \cup {l \o p : l \in LinesOf(k - 1), p \in Pieces}

InitParse ==
  /\ attendees = EmptyTable
  /\ now = 1
  /\ tokctr = 0
  /\ proc = [p \in Procs |-> Idle]
  /\ mail = [n |-> 0]
  /\ resp = [op |-> "none"]
  /\ calls = 0
  /\ last \in {[op |-> "line", line |-> l] : l \in LinesOf(MaxPieces)}
  /\ prev = [db |-> attendees, mailn |-> 0]
  /\ serial = FALSE

\* parseCsvTsvLine(line) is called.
ParseLine ==
  /\ last.op = "line"
  /\ resp' = [op |-> "parseCsvTsvLine", result |-> parseCsvTsvLine(last.line)]
  /\ last' = [op |-> "parsed", line |-> last.line]
  /\ UNCHANGED <<attendees, now, tokctr, proc, mail, calls, prev, serial>>

NextParse == ParseLine

SpecParse == InitParse /\ [][NextParse]_vars

----
\* The line algorithm, stated over positions of the line.

QuoteChars == {"\"", "'"}

RECURSIVE OpenQuoteAfter(_, _)
\* The quote character of the span that is open after the first i characters
\* of the line, "" when none is open.
OpenQuoteAfter(line, i) ==
  IF i = 0 THEN ""
  ELSE LET before == OpenQuoteAfter(line, i - 1)
       IN IF before = "" THEN (IF line[i] \in QuoteChars THEN line[i] ELSE "")
          ELSE (IF line[i] = before THEN "" ELSE before)

\* Positions holding a quote character that opens or closes a span.
QuoteMarks(line) ==
  {i \in DOMAIN line : OpenQuoteAfter(line, i) # OpenQuoteAfter(line, i - 1)}

\* Positions of the delimiter outside every quoted span.
SplitPoints(line) ==
  LET delimiter == IF "\t" \in {line[i] : i \in DOMAIN line} THEN "\t" ELSE ","
  IN {i \in DOMAIN line : line[i] = delimiter /\ OpenQuoteAfter(line, i - 1) = ""}

StripBlanks(s) ==
  LET inner == {i \in DOMAIN s : s[i] \notin Whitespace}
  IN IF inner = {} THEN <<>> ELSE SubSeq(s, Min(inner), Max(inner))

\* The fields of the line, in order.
FieldsOf(line) ==
  LET cuts == SetToSortedSeq(SplitPoints(line) \cup {0, Len(line) + 1})
      marks == QuoteMarks(line)
      keep(k) == SetToSortedSeq((cuts[k] + 1)..(cuts[k + 1] - 1) \ marks)
  IN [k \in 1..(Len(cuts) - 1) |->
        StripBlanks([j \in DOMAIN keep(k) |-> line[keep(k)[j]]])]

\* <non-whitespace-non-@>+ @ <non-whitespace-non-@>+ . <non-whitespace-non-@>+
IsEmailField(s) ==
  \E a, d \in DOMAIN s :
    /\ s[a] = "@" /\ s[d] = "."
    /\ 1 < a /\ a + 1 < d /\ d < Len(s)
    /\ \A i \in DOMAIN s : s[i] \notin Whitespace /\ (s[i] = "@" => i = a)

LineResult(line) ==
  LET fields == FieldsOf(line)
      emailAt == {k \in DOMAIN fields : IsEmailField(fields[k])}
      otherAt == {k \in DOMAIN fields : fields[k] # <<>> /\ ~IsEmailField(fields[k])}
  IN IF (\A i \in DOMAIN line : line[i] \in Whitespace) \/ emailAt = {}
     THEN NoMatch
     ELSE [ match |-> TRUE,
            email |-> fields[Min(emailAt)],
            party_size |-> Cardinality(emailAt),
            name |-> IF otherAt # {} THEN fields[Min(otherAt)]
                     ELSE deriveNameFromEmail(<<>>, fields[Min(emailAt)]) ]

\* C17: for every line, parseCsvTsvLine returns what the line algorithm gives:
\* fields split on tab if the line holds a tab and on comma otherwise, never
\* inside a quoted span, quote characters removed, fields trimmed; no match
\* exactly when the line is blank or has no email field; otherwise the first
\* email field, the number of email fields, and the first non-empty non-email
\* field or the name derived from the email.
C17_ParseLineFollowsAlgorithm ==
  last.op = "parsed" => resp.result = LineResult(last.line)

\* A line whose quoted span holds a comma and whose second field, after a
\* comma outside the span, is an address has been parsed: the span is the name.
C17_Witness ==
  /\ last.op = "parsed"
  /\ resp.result.match
  /\ \E i \in DOMAIN last.line :
       last.line[i] = "," /\ OpenQuoteAfter(last.line, i - 1) # ""
  /\ SplitPoints(last.line) # {}
  /\ resp.result.party_size = 1
  /\ resp.result.email = EmailA
  /\ resp.result.name = <<",">>

----
\* The rows of an event in a table.
RowsOfEvent(db, e) == {id \in DOMAIN db : db[id].event_id = e}

\* C18: after a copy from an event to a different one, every attendee of the
\* source has exactly one row with its primary email in the destination; such
\* a row, when the copy created it, carries the attendee's name, party size
\* and additional emails, a token no row had before, the sent flag false and
\* no RSVP; and every row of the source is as it was.
C18_CopyCarriesAttendees ==
  (last.op = "copy" /\ last.from # last.to)
  => \A a \in RowsOfEvent(prev.db, last.from) :
       LET copies == {d \in RowsOfEvent(attendees, last.to) :
                        attendees[d].email = prev.db[a].email}
       IN /\ a \in DOMAIN attendees /\ attendees[a] = prev.db[a]
          /\ Cardinality(copies) = 1
          /\ \A d \in copies \cap Created :
               /\ attendees[d].name = prev.db[a].name
               /\ attendees[d].party_size = prev.db[a].party_size
               /\ attendees[d].additional_emails = prev.db[a].additional_emails
               /\ \A o \in DOMAIN prev.db : attendees[d].token # prev.db[o].token
               /\ attendees[d].is_sent = FALSE
               /\ attendees[d].rsvp = NoRsvp

\* A copy created the destination row of an attendee who had been invited,
\* had answered and had additional emails.
C18_Witness ==
  /\ last.op = "copy" /\ last.from # last.to
  /\ \E a \in RowsOfEvent(prev.db, last.from) :
       /\ prev.db[a].is_sent /\ prev.db[a].rsvp = "yes"
       /\ prev.db[a].additional_emails # SqlNull
       /\ \E d \in Created : /\ attendees[d].event_id = last.to
                            /\ attendees[d].email = prev.db[a].email

----
\* C19: in every reachable state the RSVP response of every attendee is unset,
\* 'yes' or 'no'.
C19_RsvpIsYesNoOrUnset ==
  \A id \in DOMAIN attendees : attendees[id].rsvp \in {NoRsvp, "yes", "no"}

\* C20: once an attendee has an RSVP response, no later step of any handler,
\* a further RSVP submission with the same token included, changes the
\* attendee's stored party size.
C20_PartySizeLockedAfterFirstRsvp ==
  \A id \in DOMAIN prev.db \cap DOMAIN attendees :
    (prev.db[id].rsvp # NoRsvp /\ attendees[id].token = prev.db[id].token)
    => attendees[id].party_size = prev.db[id].party_size

----
\* The guests of the rows ids of a table: one element per member of each party.
Guests(db, ids) == UNION {{<<id, k>> : k \in 1..db[id].party_size} : id \in ids}

\* C21: getEventAttendeeStats(e) returns for each of the six categories the
\* sum of the party sizes of the attendees of e in the category, 0 when there
\* is none, and changes no stored state.
C21_StatsAreCategorySums ==
  last.op = "stats"
  => LET of(e) == {id \in DOMAIN prev.db : prev.db[id].event_id = e}
         sent == {id \in DOMAIN prev.db : prev.db[id].is_sent}
         answered(r) == {id \in DOMAIN prev.db : prev.db[id].rsvp = r}
         e == last.event_id
         count(ids) == Cardinality(Guests(prev.db, ids))
     IN /\ attendees = prev.db
        /\ resp.stats.potentialGuests = count(of(e))
        /\ resp.stats.guestsNotSent = count(of(e) \ sent)
        /\ resp.stats.guestsInvited = count(of(e) \cap sent)
        /\ resp.stats.guestsAwaitingReply = count(of(e) \cap sent \cap answered(NoRsvp))
        /\ resp.stats.guestsAttending = count(of(e) \cap sent \cap answered("yes"))
        /\ resp.stats.guestsNotAttending = count(of(e) \cap sent \cap answered("no"))

\* The statistics of an event with attendees not invited, invited and waiting,
\* and none who declined.
C21_Witness ==
  /\ last.op = "stats"
  /\ resp.stats.guestsNotSent > 0
  /\ resp.stats.guestsAwaitingReply > 0
  /\ resp.stats.guestsInvited >= resp.stats.guestsAwaitingReply
  /\ resp.stats.potentialGuests > resp.stats.guestsInvited
  /\ resp.stats.guestsNotAttending = 0

----
\* C22: when addressparser fails on the posted text, the parse-emails import
\* creates and modifies no attendee row, and its response is not the one of an
\* import that succeeded (the redirect to the admin page of the event).
C22_ParseFailureSurfaced ==
  (last.op = "parse-emails" /\ last.data.text = "malformed")
  => /\ attendees = prev.db
     /\ resp # [op |-> "parse-emails", kind |-> "redirect"]

----
\* C23: in every reachable state the party size of every attendee is an
\* integer >= 1, whatever upsertAttendee calls (undefined, NaN, zero or
\* negative sizes), update-party-size requests and RSVP submissions were made.
C23_PartySizeAtLeastOne ==
  \A id \in DOMAIN attendees :
    attendees[id].party_size \in Int /\ attendees[id].party_size >= 1

\* upsertAttendee was called with NaN, zero or a negative size for an attendee
\* without RSVP whose party size was above 1.
C23_Witness ==
  /\ last.op = "upsertAttendee"
  /\ resp.kind = "ok"
  /\ last.args.party_size \in {NumNaN, Num(0), Num(-1)}
  /\ KeyRow(last.args) # 0
  /\ prev.db[KeyRow(last.args)].rsvp = NoRsvp
  /\ prev.db[KeyRow(last.args)].party_size > 1

----
\* C24: for an existing attendee without RSVP, upsertAttendee with a party
\* size provided stores that size clamped to at least 1, and a call with no
\* party size leaves the stored size as it was.
C24_PartySizeUpdatedWhenProvided ==
  (/\ last.op = "upsertAttendee"
   /\ resp.kind = "ok"
   /\ KeyRow(last.args) # 0
   /\ prev.db[KeyRow(last.args)].rsvp = NoRsvp)
  => LET p == last.args.party_size
         before == prev.db[KeyRow(last.args)].party_size
         after == attendees[KeyRow(last.args)].party_size
     IN IF p = NumUndefined THEN after = before
        ELSE IF p.num = "int" /\ p.v >= 1 THEN after = p.v
        ELSE after = 1

\* A call without a party size found an attendee without RSVP whose party
\* size was 2, and left it at 2.
C24_Witness ==
  /\ last.op = "upsertAttendee"
  /\ resp.kind = "ok"
  /\ KeyRow(last.args) # 0
  /\ prev.db[KeyRow(last.args)].rsvp = NoRsvp
  /\ last.args.party_size = NumUndefined
  /\ prev.db[KeyRow(last.args)].party_size = 2
  /\ attendees[KeyRow(last.args)].party_size = 2

----
\* C25: when the token generated for a new attendee is the token of a stored
\* attendee, upsertAttendee throws and inserts no row; in every reachable
\* state no two attendees share a token.
C25_TokenCollisionThrows ==
  /\ \A i, j \in DOMAIN attendees : i # j => attendees[i].token # attendees[j].token
  /\ (/\ last.op = "upsertAttendee"
      /\ KeyRow(last.args) = 0
      /\ \E id \in DOMAIN prev.db : prev.db[id].token = resp.drawn)
     => resp.kind = "threw" /\ attendees = prev.db

\* generateToken() returned the token of a stored attendee for a new one.
C25_Witness ==
  /\ last.op = "upsertAttendee"
  /\ KeyRow(last.args) = 0
  /\ \E id \in DOMAIN prev.db : prev.db[id].token = resp.drawn
  /\ resp.kind = "threw"

----
\* A batch step (the start of send-all-pending or the return of one of its
\* transport calls) is the latest step.
BatchStep == last.op \in {"send-invites", "send-invites-resume"}

\* The loop of every batch in flight has handled the attendees before its
\* position once each, in list order, and awaits the transport call of the
\* attendee at its position; a batch step makes one transport call, for that
\* attendee, or none when it ends the batch.
BatchInOrder ==
  /\ \A p \in Procs :
       proc[p].pc = "send-invites" =>
         /\ proc[p].i \in 1..Len(proc[p].pending)
         /\ Len(proc[p].results) = proc[p].i - 1
         /\ Truthy(toLowerCase(trim(proc[p].pending[proc[p].i].email)))
         /\ \A k \in 1..(proc[p].i - 1) :
              proc[p].results[k] = "skipped"
                <=> ~Truthy(toLowerCase(trim(proc[p].pending[k].email)))
         /\ \A j, k \in 1..Len(proc[p].pending) :
              j # k => proc[p].pending[j].id # proc[p].pending[k].id
  /\ (BatchStep /\ resp.kind = "awaiting") =>
       /\ mail.n = prev.mailn + 1
       /\ \E p \in Procs : /\ proc[p].pc = "send-invites"
                           /\ mail.a = proc[p].pending[proc[p].i]
  /\ (last.op = "send-invites-resume" /\ resp.kind = "awaiting") =>
       \E p \in Procs : /\ proc[p].pc = "send-invites"
                         /\ mail.a = proc[p].pending[proc[p].i]
                         /\ \E k \in 1..(proc[p].i - 1) : proc[p].pending[k].id = last.id
  /\ (BatchStep /\ resp.kind # "awaiting") =>
       /\ mail.n = prev.mailn
       /\ Len(resp.results) = Len(resp.pending)
  /\ last.op = "send-invites" =>
       LET listed == IF resp.kind = "awaiting"
                     THEN {pp \in Procs : proc[pp].pc = "send-invites"
                                          /\ proc[pp].eventId = last.eventId}
                     ELSE {}
           unsent == {id \in DOMAIN prev.db : /\ prev.db[id].event_id = last.eventId
                                              /\ ~prev.db[id].is_sent}
       IN IF resp.kind = "awaiting"
          THEN \E pp \in listed :
                 {proc[pp].pending[k].id : k \in 1..Len(proc[pp].pending)} = unsent
          ELSE {resp.pending[k].id : k \in 1..Len(resp.pending)} = unsent

\* C26: every transport call returning, a send-all-pending that was started
\* ends and responds, having handled each attendee of the pending list it
\* selected at its start once, in list order, with one transport call at most
\* for each.
C26_BatchRunsToCompletion ==
  /\ []BatchInOrder
  /\ \A p \in Procs : (proc[p].pc = "send-invites") ~> (proc[p] = Idle)

\* A batch over three pending attendees has ended: the first send failed, the
\* second attendee had no email, the third was sent.
C26_Witness ==
  /\ last.op = "send-invites-resume"
  /\ resp.op = "send-invites" /\ resp.kind = "redirect-error"
  /\ resp.results = <<"failed", "skipped", "sent">>

----
\* C27: upsertAttendee on an existing row leaves the row's id, event, primary
\* email, sent flag, RSVP response and response time as they were, and
\* modifies, creates and deletes no other row.
C27_UpsertFrame ==
  (/\ last.op = "upsertAttendee"
   /\ resp.kind = "ok"
   /\ KeyRow(last.args) # 0)
  => LET k == KeyRow(last.args)
     IN /\ DOMAIN attendees = DOMAIN prev.db
        /\ resp.id = k
        /\ \A id \in DOMAIN prev.db \ {k} : attendees[id] = prev.db[id]
        /\ attendees[k].event_id = prev.db[k].event_id
        /\ attendees[k].email = prev.db[k].email
        /\ attendees[k].is_sent = prev.db[k].is_sent
        /\ attendees[k].rsvp = prev.db[k].rsvp
        /\ attendees[k].responded_at = prev.db[k].responded_at

\* upsertAttendee changed the row of an attendee who had been invited and had
\* answered, in a table with another row.
C27_Witness ==
  /\ last.op = "upsertAttendee"
  /\ resp.kind = "ok"
  /\ KeyRow(last.args) # 0
  /\ prev.db[KeyRow(last.args)].is_sent
  /\ prev.db[KeyRow(last.args)].rsvp = "yes"
  /\ attendees[KeyRow(last.args)].additional_emails
       # prev.db[KeyRow(last.args)].additional_emails
  /\ Cardinality(DOMAIN prev.db) >= 2

----
\* C28: the clock never going back, the last-modified time of an attendee
\* never decreases, whatever the interleaving of upsertAttendee, RSVP
\* submissions, update-emails, send-one and a send-all-pending in flight.
C28_LastModifiedMonotonic ==
  \A id \in Kept :
    attendees[id].token = prev.db[id].token
    => attendees[id].last_modified >= prev.db[id].last_modified

----
\* The attendee whose transport call the handler in slot p awaits, or 0.
Awaited(p) ==
  IF proc[p].pc = "send-one" THEN proc[p].a.id
  ELSE IF proc[p].pc = "send-invites" THEN proc[p].pending[proc[p].i].id
  ELSE 0

\* C29: when a send-all-pending overlaps another send-all-pending or a
\* send-one, the transport is invoked once at most for an attendee: the batch
\* and the other operation have no call in flight for the same attendee, and
\* the batch makes no call for an attendee that another operation has marked
\* sent since the batch selected its pending list.
C29_OverlappingSendsCallOnce ==
  /\ \A p, q \in Procs :
       (p # q /\ proc[p].pc = "send-invites") => Awaited(p) # Awaited(q)
  /\ (BatchStep /\ resp.kind = "awaiting" /\ mail.a.id \in DOMAIN attendees)
     => ~(/\ attendees[mail.a.id].is_sent
          /\ attendees[mail.a.id].token = mail.a.token)

----
\* C30: whenever send-all-pending marks an attendee as sent, the invitation of
\* that send went to the primary email the attendee's row holds at that
\* moment, update-emails and delete requests served while the batch was
\* suspended notwithstanding.
C30_MarkedSentWasDeliveredToStoredEmail ==
  (/\ last.op = "send-invites-resume"
   /\ last.ok
   /\ last.id \in DOMAIN attendees
   /\ attendees[last.id].is_sent)
  => toLowerCase(trim(attendees[last.id].email)) = last.to

====
